---- MODULE Spec2Model ----
(***************************************************************************)
(* Ledger / balance subsystem of dinhero-flow: the accounts and            *)
(* transactions tables, the row triggers validate_transaction (BEFORE      *)
(* INSERT OR UPDATE) and update_account_balance (AFTER INSERT OR UPDATE OR *)
(* DELETE), the transfer procedures and the client's account edit.         *)
(* Every operation is one database statement or one RPC call, which        *)
(* PostgreSQL runs in one transaction: an exception raised by a trigger    *)
(* aborts the statement and the enclosing function call.                   *)
(***************************************************************************)
EXTENDS Integers, FiniteSets, Sequences, TLC

(* ------------------------------ bounds --------------------------------- *)
\* number of operations in a behaviour
MaxOps == 2
\* number of ledger rows that can exist at once
MaxTx == 2

NULL == "NULL"

AccountIds == {"A", "B", "K"}
TxIds == 1..MaxTx
Amounts == {-1, 1, 2}
TransferAmounts == {-1, 0, 1, 2}
TxTypes == {"income", "expense", "transfer"}
AccountTypes == {"checking", "credit"}
EditBalances == {0, 2}
LimitAmounts == {1}

\* accounts, transactions: the tables; lastOp, nOps: the last operation and
\* the number of operations run; sessions: the client sessions that run
\* concurrently; credit_bills, today, lastRun: the billing-cycle table, the
\* scheduler's current_date and its last pass; report: the last analytics call;
\* document: the last fiscal document given to validateFiscalDocument
VARIABLES accounts, transactions, lastOp, nOps, sessions, credit_bills, today, lastRun,
          report, document

vars == <<accounts, transactions, lastOp, nOps, sessions, credit_bills, today, lastRun,
          report, document>>

(* ------------------------------ rows ----------------------------------- *)
\* a row of table transactions, reduced to the columns the triggers read
Row(a, amt, paid, ty, to) ==
  [account_id |-> a, amount |-> amt, is_paid |-> paid, type |-> ty, to_account_id |-> to]

NoRow == Row(NULL, 0, FALSE, "none", NULL)

\* rows a client submits: the counter-account is another account than the
\* row's own, and only a transfer carries one
ClientRows ==
  { Row(a, amt, paid, ty, to) :
      a \in AccountIds, amt \in Amounts, paid \in BOOLEAN,
      ty \in TxTypes, to \in AccountIds \cup {NULL} }

WellFormed(r) ==
  /\ r.to_account_id # r.account_id
  /\ r.to_account_id # NULL => r.type = "transfer"

InputRows == { r \in ClientRows : WellFormed(r) }

ABS(x) == IF x < 0 THEN -x ELSE x

(* --------------------------- balance writes ---------------------------- *)
\* UPDATE accounts SET balance = balance + d WHERE id = a
AddToBalance(acc, a, d) ==
  IF a \in DOMAIN acc THEN [acc EXCEPT ![a].balance = @ + d] ELSE acc

(* ------------------- trigger update_account_balance() ------------------ *)
\* v_old_amount: -OLD.amount when the old row is settled, else 0
v_old_amount(old) == IF old.is_paid = TRUE THEN -old.amount ELSE 0

\* faulty variant: the new amount counted whether or not the row is settled
v_new_amount_Unconditional(new) == new.amount

\* v_new_amount: NEW.amount when the new row is settled, else 0
v_new_amount(new) == IF new.is_paid = TRUE THEN new.amount ELSE 0

\* TG_OP = 'INSERT': one update of NEW.account_id
TriggerInsert(acc, new) == AddToBalance(acc, new.account_id, v_new_amount(new))

\* faulty variant: the deleted amount added again instead of reverted
TriggerDelete_NotReverted(acc, old) ==
  AddToBalance(acc, old.account_id, IF old.is_paid = TRUE THEN old.amount ELSE 0)

\* TG_OP = 'DELETE': one update of OLD.account_id
TriggerDelete(acc, old) == AddToBalance(acc, old.account_id, v_old_amount(old))

\* faulty variant: the new amount applied without reverting the old one
UpdateAccountPart_NoReversal(acc, old, new) ==
  IF old.account_id = new.account_id
  THEN AddToBalance(acc, new.account_id, v_new_amount(new))
  ELSE AddToBalance(AddToBalance(acc, old.account_id, v_old_amount(old)),
                    new.account_id, v_new_amount(new))

\* faulty variant: the net difference applied to the new account even when the
\* account changed
UpdateAccountPart_IgnoresMove(acc, old, new) ==
  AddToBalance(acc, new.account_id, v_new_amount(new) + v_old_amount(old))

\* TG_OP = 'UPDATE', the account part: one net update when the account is
\* the same, else one update of the old and one of the new account
UpdateAccountPart(acc, old, new) ==
  IF old.account_id = new.account_id
  THEN AddToBalance(acc, new.account_id, v_new_amount(new) + v_old_amount(old))
  ELSE AddToBalance(AddToBalance(acc, old.account_id, v_old_amount(old)),
                    new.account_id, v_new_amount(new))

\* faulty variant: the new amount applied to the counter-account without
\* reverting the old one
UpdateCounterPart_NoReversal(acc, old, new) ==
  IF new.type = "transfer" /\ new.to_account_id # NULL
  THEN AddToBalance(acc, new.to_account_id, -v_new_amount(new))
  ELSE acc

\* TG_OP = 'UPDATE', the counter-account part (transfers)
UpdateCounterPart(acc, old, new) ==
  LET a1 == IF old.type = "transfer" /\ old.to_account_id # NULL
            THEN AddToBalance(acc, old.to_account_id, -v_old_amount(old))
            ELSE acc
  IN  IF new.type = "transfer" /\ new.to_account_id # NULL
      THEN AddToBalance(a1, new.to_account_id, -v_new_amount(new))
      ELSE a1

TriggerUpdate(acc, old, new) ==
  UpdateCounterPart(UpdateAccountPart(acc, old, new), old, new)

\* the AFTER INSERT OR UPDATE OR DELETE row trigger on transactions
update_account_balance(TG_OP, old, new, acc) ==
  CASE TG_OP = "INSERT" -> TriggerInsert(acc, new)
    [] TG_OP = "DELETE" -> TriggerDelete(acc, old)
    [] TG_OP = "UPDATE" -> TriggerUpdate(acc, old, new)

(* --------------------- trigger validate_transaction() ------------------ *)
\* the account that the insufficient-funds check looks for
HasFunds(acc, new) ==
  \E a \in DOMAIN acc :
    /\ a = new.account_id
    /\ acc[a].type # "credit"
    /\ acc[a].balance
         + (IF acc[a].type = "credit" THEN acc[a].limit_amount ELSE 0)
         >= ABS(new.amount)

\* faulty variant: no check of the sign of a transfer's amount
validate_transaction_NoTransferCheck(TG_OP, new, acc) ==
  (TG_OP = "INSERT" \/ TG_OP = "UPDATE")
    => (new.type \in {"expense", "transfer"} => HasFunds(acc, new))

\* TRUE when the BEFORE INSERT OR UPDATE trigger returns NEW, FALSE when it
\* raises
validate_transaction(TG_OP, new, acc) ==
  /\ ~(new.type = "transfer" /\ new.amount <= 0)
  /\ (TG_OP = "INSERT" \/ TG_OP = "UPDATE")
       => (new.type \in {"expense", "transfer"} => HasFunds(acc, new))

(* ---------------------------- statements ------------------------------- *)
\* the database: the two tables
Db(acc, txs) == [accounts |-> acc, transactions |-> txs]

\* the outcome of a statement or procedure: ok = FALSE when an exception
\* was raised, with the tables as they were written up to the raise
Outcome(ok, acc, txs) == [ok |-> ok, accounts |-> acc, transactions |-> txs]

\* INSERT INTO transactions: BEFORE trigger, the row, AFTER trigger
InsertStmt(db, id, new) ==
  IF ~validate_transaction("INSERT", new, db.accounts)
  THEN Outcome(FALSE, db.accounts, db.transactions)
  ELSE Outcome(TRUE,
               update_account_balance("INSERT", NoRow, new, db.accounts),
               [i \in DOMAIN db.transactions \cup {id} |->
                  IF i = id THEN new ELSE db.transactions[i]])

\* UPDATE transactions ... WHERE id = id: BEFORE trigger, the row, AFTER trigger
UpdateStmt(db, id, new) ==
  IF ~validate_transaction("UPDATE", new, db.accounts)
  THEN Outcome(FALSE, db.accounts, db.transactions)
  ELSE Outcome(TRUE,
               update_account_balance("UPDATE", db.transactions[id], new, db.accounts),
               [db.transactions EXCEPT ![id] = new])

\* DELETE FROM transactions WHERE id = id: the row, AFTER trigger
DeleteStmt(db, id) ==
  Outcome(TRUE,
          update_account_balance("DELETE", db.transactions[id], NoRow, db.accounts),
          [i \in DOMAIN db.transactions \ {id} |-> db.transactions[i]])

\* faulty variant: what was written before the raise is kept
Commit_KeepsPartial(db, out) == Db(out.accounts, out.transactions)

\* what is committed: the outcome's tables, or the tables before the
\* transaction when it raised
Commit(db, out) ==
  IF out.ok THEN Db(out.accounts, out.transactions) ELSE db

(* ---------------------------- procedures ------------------------------- *)
\* the free-text status column, which the client's edit form writes from
\* is_paid
status(r) == IF r.is_paid THEN "completed" ELSE "pending"

RECURSIVE SumAmounts(_, _)
\* SUM(amount) over the rows with the ids in S
SumAmounts(txs, S) ==
  IF S = {} THEN 0
  ELSE LET i == CHOOSE j \in S : TRUE
       IN  txs[i].amount + SumAmounts(txs, S \ {i})

\* update_account_balance(p_account_id): recomputes the balance from the
\* ledger and overwrites the column
update_account_balance_of(p_account_id, db) ==
  LET txs == db.transactions
      v_account_type == db.accounts[p_account_id].type
      v_balance ==
        IF v_account_type = "credit"
        THEN SumAmounts(txs, { i \in DOMAIN txs :
               txs[i].account_id = p_account_id /\ txs[i].is_paid = FALSE })
        ELSE SumAmounts(txs, { i \in DOMAIN txs :
               txs[i].account_id = p_account_id /\ status(txs[i]) = "completed" })
  IN  Db([db.accounts EXCEPT ![p_account_id].balance = v_balance], txs)

\* faulty variant: the expense leg written with a positive amount
create_transfer_transaction_Unsigned(db, id1, id2, p_from_account_id, p_to_account_id, p_amount) ==
  LET leg1 == InsertStmt(db, id1,
                Row(p_from_account_id, ABS(p_amount), TRUE, "expense", NULL))
  IN  IF ~leg1.ok THEN leg1
      ELSE InsertStmt(Db(leg1.accounts, leg1.transactions), id2,
             Row(p_to_account_id, ABS(p_amount), TRUE, "income", NULL))

\* create_transfer_transaction(p_user_id, p_from_account_id, p_to_account_id,
\* p_amount, p_date): an expense leg and an income leg, both settled
create_transfer_transaction(db, id1, id2, p_from_account_id, p_to_account_id, p_amount) ==
  LET leg1 == InsertStmt(db, id1,
                Row(p_from_account_id, -ABS(p_amount), TRUE, "expense", NULL))
  IN  IF ~leg1.ok THEN leg1
      ELSE InsertStmt(Db(leg1.accounts, leg1.transactions), id2,
             Row(p_to_account_id, ABS(p_amount), TRUE, "income", NULL))

\* create_transfer(p_from_account_id, p_to_account_id, p_amount, p_date):
\* two legs of type transfer, then a recomputation of both balances
create_transfer(db, id1, id2, p_from_account_id, p_to_account_id, p_amount) ==
  LET leg1 == InsertStmt(db, id1,
                Row(p_from_account_id, -p_amount, TRUE, "transfer", NULL))
      leg2 == InsertStmt(Db(leg1.accounts, leg1.transactions), id2,
                Row(p_to_account_id, p_amount, TRUE, "transfer", NULL))
      r1 == update_account_balance_of(p_from_account_id,
              Db(leg2.accounts, leg2.transactions))
      r2 == update_account_balance_of(p_to_account_id, r1)
  IN  IF ~leg1.ok THEN leg1
      ELSE IF ~leg2.ok THEN leg2
      ELSE Outcome(TRUE, r2.accounts, r2.transactions)

\* reconcile_transaction(p_transaction_id, p_bank_reference,
\* p_reconciliation_date): one UPDATE of the row that sets bank_reference,
\* reconciliation_date and updated_at, so OLD and NEW agree on every column
\* the triggers read; the audit_log row it then inserts touches no table
\* of the ledger
reconcile_transaction(db, p_transaction_id) ==
  UpdateStmt(db, p_transaction_id, db.transactions[p_transaction_id])

(* ------------------------------ history -------------------------------- *)
\* the last operation: its kind and arguments, whether it committed, and
\* the tables before it
Op(kind, ok, id, old, new, from, to, amt, pre) ==
  [kind |-> kind, ok |-> ok, id |-> id, old |-> old, new |-> new,
   from |-> from, to |-> to, amount |-> amt, pre |-> pre]

CurrentDb == Db(accounts, transactions)

FreeIds == TxIds \ DOMAIN transactions

\* the id a new row gets
NextId(S) == CHOOSE i \in S : \A j \in S : i <= j

(* ------------------------------- state --------------------------------- *)
InitialType(a) == IF a = "K" THEN "credit" ELSE "checking"

\* the accounts as handleAddAccount created them, with an opening balance
OpenedAccounts(opening) ==
  [a \in AccountIds |->
     [type |-> InitialType(a), balance |-> opening, limit_amount |-> 1]]

\* no concurrent session is open
NoSessions == sessions = <<>>

\* the scheduler is not installed
NoBilling == credit_bills = {} /\ today = NULL /\ lastRun = NULL

\* no report was asked for
NoReport == report = NULL

\* no fiscal document was validated
NoDocument == document = NULL

Init ==
  /\ \E opening \in EditBalances : accounts = OpenedAccounts(opening)
  /\ transactions = <<>>
  /\ lastOp = Op("init", TRUE, 0, NoRow, NoRow, NULL, NULL, 0, Db(accounts, <<>>))
  /\ nOps = 0
  /\ NoSessions /\ NoBilling /\ NoReport /\ NoDocument

\* every operation ends by committing or rolling back
Finish(kind, id, old, new, from, to, amt, out) ==
  LET db == Commit(CurrentDb, out)
  IN  /\ accounts' = db.accounts
      /\ transactions' = db.transactions
      /\ lastOp' = Op(kind, out.ok, id, old, new, from, to, amt, CurrentDb)
      /\ nOps' = nOps + 1
      /\ UNCHANGED <<sessions, credit_bills, today, lastRun, report, document>>

\* addTransaction: the client inserts one row
AddTransaction ==
  /\ nOps < MaxOps
  /\ FreeIds # {}
  /\ \E new \in InputRows :
       LET id == NextId(FreeIds)
       IN  Finish("insert", id, NoRow, new, NULL, NULL, 0,
                  InsertStmt(CurrentDb, id, new))

\* updateTransaction: the client updates one row
UpdateTransaction ==
  /\ nOps < MaxOps
  /\ \E id \in DOMAIN transactions, new \in InputRows :
       Finish("update", id, transactions[id], new, NULL, NULL, 0,
              UpdateStmt(CurrentDb, id, new))

\* deleteTransaction: the client deletes one row
DeleteTransaction ==
  /\ nOps < MaxOps
  /\ \E id \in DOMAIN transactions :
       Finish("delete", id, transactions[id], NoRow, NULL, NULL, 0,
              DeleteStmt(CurrentDb, id))

\* rpc create_transfer_transaction
CreateTransferTransaction ==
  /\ nOps < MaxOps
  /\ Cardinality(FreeIds) >= 2
  /\ \E from \in AccountIds, to \in AccountIds, amt \in TransferAmounts :
       /\ to # from
       /\ LET id1 == NextId(FreeIds)
              id2 == NextId(FreeIds \ {id1})
          IN  Finish("create_transfer_transaction", id1, NoRow, NoRow, from, to, amt,
                     create_transfer_transaction(CurrentDb, id1, id2, from, to, amt))

\* rpc create_transfer
CreateTransfer ==
  /\ nOps < MaxOps
  /\ Cardinality(FreeIds) >= 2
  /\ \E from \in AccountIds, to \in AccountIds, amt \in TransferAmounts :
       /\ to # from
       /\ LET id1 == NextId(FreeIds)
              id2 == NextId(FreeIds \ {id1})
          IN  Finish("create_transfer", id1, NoRow, NoRow, from, to, amt,
                     create_transfer(CurrentDb, id1, id2, from, to, amt))

\* handleEditAccount: the client writes the account's columns, balance included
EditAccount ==
  /\ nOps < MaxOps
  /\ \E a \in AccountIds, ty \in AccountTypes, bal \in EditBalances, lim \in LimitAmounts :
       Finish("edit_account", 0, NoRow, NoRow, a, NULL, bal,
              Outcome(TRUE,
                      [accounts EXCEPT ![a] = [type |-> ty, balance |-> bal, limit_amount |-> lim]],
                      transactions))

\* rpc reconcile_transaction on a row of the ledger
ReconcileTransaction ==
  /\ nOps < MaxOps
  /\ \E id \in DOMAIN transactions :
       Finish("reconcile", id, transactions[id], transactions[id], NULL, NULL, 0,
              reconcile_transaction(CurrentDb, id))

Next ==
  \/ AddTransaction
  \/ UpdateTransaction
  \/ DeleteTransaction
  \/ CreateTransferTransaction
  \/ CreateTransfer
  \/ EditAccount
  \/ ReconcileTransaction

Spec == Init /\ [][Next]_vars

(* ------------------------- reading the history ------------------------ *)
LedgerKinds == {"insert", "update", "delete"}
TransferKinds == {"create_transfer_transaction", "create_transfer"}

Committed(kind) == lastOp.kind = kind /\ lastOp.ok

\* the change of account a's balance made by the last operation
Delta(a) == accounts[a].balance - lastOp.pre.accounts[a].balance

Balances(acc) == [a \in DOMAIN acc |-> acc[a].balance]

IsCounterTransfer(r) == r.type = "transfer" /\ r.to_account_id # NULL

\* the ledger sum of account a: settled rows that have it as account_id,
\* minus settled transfer rows that have it as to_account_id
LedgerSum(db, a) ==
  LET txs == db.transactions
  IN  SumAmounts(txs, { i \in DOMAIN txs : txs[i].is_paid /\ txs[i].account_id = a })
      - SumAmounts(txs, { i \in DOMAIN txs :
            txs[i].is_paid /\ IsCounterTransfer(txs[i]) /\ txs[i].to_account_id = a })

Consistent(db) == \A a \in AccountIds : db.accounts[a].balance = LedgerSum(db, a)

\* the last operation was an update that changed only the columns in cols
OnlyChanged(cols) ==
  /\ Committed("update")
  /\ \A c \in {"account_id", "amount", "is_paid", "type", "to_account_id"} :
       (lastOp.old[c] # lastOp.new[c]) <=> (c \in cols)

\* the contributions of an event's old and new row to a balance
OldContribution(r) == IF r.is_paid THEN -r.amount ELSE 0
NewContribution(r) == IF r.is_paid THEN r.amount ELSE 0

(* ------------------------------- claims -------------------------------- *)
\* C1: a committed insert, update or delete that starts from balances equal
\* to the ledger sums (settled rows on the account minus settled transfer
\* rows towards it) ends with balances equal to the ledger sums.
C1_BalanceEqualsLedgerSum ==
  (lastOp.kind \in LedgerKinds /\ lastOp.ok /\ Consistent(lastOp.pre))
    => Consistent(CurrentDb)

\* C2: on insert, update and delete of a transfer with a counter-account,
\* the counter-account's balance changes by the negation of the entry's
\* contribution: -a on insert of a settled transfer of a, +a on its delete.
C2_CounterAccountNegated ==
  /\ (Committed("insert") /\ IsCounterTransfer(lastOp.new))
       => Delta(lastOp.new.to_account_id) = -NewContribution(lastOp.new)
  /\ (Committed("delete") /\ IsCounterTransfer(lastOp.old))
       => Delta(lastOp.old.to_account_id) = -OldContribution(lastOp.old)
  /\ (OnlyChanged({"amount"}) /\ IsCounterTransfer(lastOp.new))
       => Delta(lastOp.new.to_account_id)
            = -(OldContribution(lastOp.old) + NewContribution(lastOp.new))

\* C3 as stated: an update of the amount alone, from a to b, of an entry
\* settled before and after changes the entry's account by b - a and no
\* other account's balance.
C3_AmountEditNoOtherAccount ==
  (OnlyChanged({"amount"}) /\ lastOp.old.is_paid)
    => \A c \in AccountIds :
         Delta(c) = IF c = lastOp.new.account_id
                    THEN lastOp.new.amount - lastOp.old.amount ELSE 0

\* C3 amended: an update of the amount alone, from a to b, of an entry
\* settled before and after changes the entry's account by b - a, the
\* counter-account of a transfer by a - b, and no other account's balance.
C3_AmountEditNetDifference ==
  (OnlyChanged({"amount"}) /\ lastOp.old.is_paid)
    => \A c \in AccountIds :
         Delta(c) = IF c = lastOp.new.account_id
                      THEN lastOp.new.amount - lastOp.old.amount
                    ELSE IF IsCounterTransfer(lastOp.new) /\ c = lastOp.new.to_account_id
                      THEN lastOp.old.amount - lastOp.new.amount
                    ELSE 0

C3_Witness ==
  /\ OnlyChanged({"amount"})
  /\ lastOp.old.is_paid
  /\ IsCounterTransfer(lastOp.new)
  /\ lastOp.old.amount = 1 /\ lastOp.new.amount = 2

\* C4: an update that only flips is_paid from false to true adds the amount
\* to the account once, one that only flips it from true to false subtracts
\* it once, and flipping back right after the first flip returns every
\* balance to its value before the first flip.
C4_SettledFlagRoundTrip ==
  /\ (OnlyChanged({"is_paid"}) /\ lastOp.new.is_paid)
       => /\ Delta(lastOp.new.account_id) = lastOp.new.amount
          /\ LET back == UpdateStmt(CurrentDb, lastOp.id, lastOp.old)
             IN  back.ok => Balances(back.accounts) = Balances(lastOp.pre.accounts)
  /\ (OnlyChanged({"is_paid"}) /\ ~lastOp.new.is_paid)
       => Delta(lastOp.new.account_id) = -lastOp.new.amount

C4_Witness ==
  /\ OnlyChanged({"is_paid"})
  /\ lastOp.new.is_paid
  /\ UpdateStmt(CurrentDb, lastOp.id, lastOp.old).ok
  /\ Delta(lastOp.new.account_id) # 0

\* C5: inserting a settled expense of x (amount -x) lowers the account's
\* balance by x, and deleting that entry right afterwards returns every
\* balance to its value before the insert.
C5_ExpenseInsertDelete ==
  /\ (Committed("insert") /\ lastOp.new.type = "expense" /\ lastOp.new.is_paid
        /\ lastOp.new.amount < 0)
       => /\ Delta(lastOp.new.account_id) = lastOp.new.amount
          /\ Balances(DeleteStmt(CurrentDb, lastOp.id).accounts)
               = Balances(lastOp.pre.accounts)
  /\ (Committed("delete") /\ lastOp.old.type = "expense" /\ lastOp.old.is_paid
        /\ lastOp.old.amount < 0)
       => \A c \in AccountIds :
            Delta(c) = IF c = lastOp.old.account_id THEN -lastOp.old.amount ELSE 0

C5_Witness ==
  /\ Committed("insert")
  /\ lastOp.new.type = "expense" /\ lastOp.new.is_paid
  /\ lastOp.new.amount = -1
  /\ lastOp.pre.accounts[lastOp.new.account_id].balance = 2
  /\ accounts[lastOp.new.account_id].balance = 1

\* C6: an update that moves an entry from account X to account Y adds the
\* old contribution to X and the new contribution to Y (and their negations
\* to the counter-accounts of a transfer), and changes no other balance.
C6_AccountChangeSplitsContributions ==
  (Committed("update") /\ lastOp.old.account_id # lastOp.new.account_id)
    => \A c \in AccountIds :
         Delta(c) =
             (IF c = lastOp.old.account_id THEN OldContribution(lastOp.old) ELSE 0)
           + (IF c = lastOp.new.account_id THEN NewContribution(lastOp.new) ELSE 0)
           - (IF IsCounterTransfer(lastOp.old) /\ c = lastOp.old.to_account_id
              THEN OldContribution(lastOp.old) ELSE 0)
           - (IF IsCounterTransfer(lastOp.new) /\ c = lastOp.new.to_account_id
              THEN NewContribution(lastOp.new) ELSE 0)

C6_Witness ==
  /\ Committed("update")
  /\ lastOp.old.account_id = "A" /\ lastOp.new.account_id = "B"
  /\ lastOp.old.is_paid /\ lastOp.new.is_paid
  /\ lastOp.old.amount = 1 /\ lastOp.new.amount = 2
  /\ Delta("A") = -1 /\ Delta("B") = 2 /\ Delta("K") = 0

\* the rows the last operation added to the ledger
NewIds == DOMAIN transactions \ DOMAIN lastOp.pre.transactions

\* C7: a committed transfer of a positive amount x between two distinct
\* accounts lowers the source balance by x, raises the destination balance
\* by x and adds two legs, both settled.
C7_TransferSymmetry ==
  (lastOp.kind \in TransferKinds /\ lastOp.ok /\ lastOp.amount > 0)
    => /\ Delta(lastOp.from) = -lastOp.amount
       /\ Delta(lastOp.to) = lastOp.amount
       /\ Cardinality(NewIds) = 2
       /\ \A i \in NewIds : transactions[i].is_paid

C7_Witness ==
  /\ lastOp.kind \in TransferKinds /\ lastOp.ok
  /\ lastOp.amount = 2
  /\ Delta(lastOp.from) = -2 /\ Delta(lastOp.to) = 2

RECURSIVE InsertDeltas(_, _, _)
\* the balances after the insert trigger ran for the rows with the ids in S
InsertDeltas(acc, txs, S) ==
  IF S = {} THEN acc
  ELSE LET i == CHOOSE j \in S : TRUE
       IN  InsertDeltas(update_account_balance("INSERT", NoRow, txs[i], acc),
                        txs, S \ {i})

C9_BalanceOnlyByTrigger ==
  (lastOp.kind \notin LedgerKinds \cup TransferKinds)
    => \A a \in AccountIds : Delta(a) = 0

\* C10: an operation that raised left the ledger and the balances as they
\* were; a committed insert, update or delete shows its row change together
\* with the trigger's delta; and no ledger operation changes a balance
\* without changing the ledger.
C10_LedgerAndBalanceTogether ==
  /\ ~lastOp.ok => CurrentDb = lastOp.pre
  /\ Committed("insert")
       => /\ lastOp.id \notin DOMAIN lastOp.pre.transactions
          /\ transactions[lastOp.id] = lastOp.new
          /\ accounts = TriggerInsert(lastOp.pre.accounts, lastOp.new)
  /\ Committed("update")
       => /\ transactions[lastOp.id] = lastOp.new
          /\ accounts = TriggerUpdate(lastOp.pre.accounts, lastOp.old, lastOp.new)
  /\ Committed("delete")
       => /\ lastOp.id \notin DOMAIN transactions
          /\ accounts = TriggerDelete(lastOp.pre.accounts, lastOp.old)
  /\ (lastOp.kind \in LedgerKinds \cup TransferKinds
        /\ transactions = lastOp.pre.transactions)
       => accounts = lastOp.pre.accounts

\* a transfer whose first leg was written and whose second leg raised
C10_Witness ==
  /\ lastOp.kind = "create_transfer" /\ ~lastOp.ok
  /\ validate_transaction("INSERT",
       Row(lastOp.from, -lastOp.amount, TRUE, "transfer", NULL), lastOp.pre.accounts)
  /\ lastOp.pre.accounts[lastOp.from].balance > 0
  /\ CurrentDb = lastOp.pre

(* ======================= concurrent sessions =========================== *)
(* Two client sessions work on the same database at once.  PostgreSQL runs  *)
(* each statement under READ COMMITTED: an UPDATE of an accounts row takes  *)
(* the row's lock, waits while another transaction holds it, and then       *)
(* evaluates  balance + d  on the row's latest committed version.  A client *)
(* holds the account it loaded in its form state until it saves.            *)
SessionIds == {"s1", "s2"}

\* a session: where it stands, the account it works on, the row it inserts,
\* the account record its form was filled from, the balance it is about to
\* commit, and the change of balance it asked for
Session(pc, a, row, form, pending, delta) ==
  [pc |-> pc, account |-> a, row |-> row, form |-> form, pending |-> pending,
   delta |-> delta]

IdleSession == Session("idle", NULL, NoRow, NULL, 0, 0)

\* the row lock of account a is held by a transaction that updated it and
\* did not commit yet
RowLocked(a) == \E s \in SessionIds : sessions[s].pc = "updated" /\ sessions[s].account = a

ConcInit ==
  /\ \E opening \in EditBalances : accounts = OpenedAccounts(opening)
  /\ transactions = <<>>
  /\ lastOp = Op("init", TRUE, 0, NoRow, NoRow, NULL, NULL, 0, Db(accounts, <<>>))
  /\ nOps = 0
  /\ sessions = [s \in SessionIds |-> IdleSession]
  /\ NoBilling /\ NoReport /\ NoDocument

\* addTransaction: INSERT INTO transactions; the BEFORE trigger accepts the
\* row on the committed tables, the row is written in the session's
\* transaction and the AFTER trigger is about to update the account
SessionInsert(s) ==
  /\ sessions[s].pc = "idle"
  /\ \E new \in InputRows :
       /\ validate_transaction("INSERT", new, accounts)
       /\ sessions' = [sessions EXCEPT
                         ![s] = Session("inserted", new.account_id, new, NULL, 0,
                                        v_new_amount(new))]
  /\ UNCHANGED <<accounts, transactions, lastOp, nOps, credit_bills, today, lastRun, report, document>>

\* the AFTER trigger's  UPDATE accounts SET balance = balance + v_new_amount :
\* it waits for the row lock and adds to the row's current value
SessionApplyTrigger(s) ==
  /\ sessions[s].pc = "inserted"
  /\ ~RowLocked(sessions[s].account)
  /\ sessions' = [sessions EXCEPT
                    ![s].pc = "updated",
                    ![s].pending =
                       TriggerInsert(accounts, sessions[s].row)[sessions[s].account].balance]
  /\ UNCHANGED <<accounts, transactions, lastOp, nOps, credit_bills, today, lastRun, report, document>>

\* the statement's transaction commits: the row and the balance become
\* visible and the row lock is released
SessionCommit(s) ==
  /\ sessions[s].pc = "updated"
  /\ FreeIds # {}
  /\ accounts' = [accounts EXCEPT ![sessions[s].account].balance = sessions[s].pending]
  /\ transactions' = (NextId(FreeIds) :> sessions[s].row) @@ transactions
  /\ sessions' = [sessions EXCEPT ![s].pc = "done"]
  /\ UNCHANGED <<lastOp, nOps, credit_bills, today, lastRun, report, document>>

\* EditAccountModal fills its form from the account the client loaded
SessionOpenForm(s) ==
  /\ sessions[s].pc = "idle"
  /\ \E a \in AccountIds :
       sessions' = [sessions EXCEPT
                      ![s] = Session("editing", a, NoRow, accounts[a], 0, 0)]
  /\ UNCHANGED <<accounts, transactions, lastOp, nOps, credit_bills, today, lastRun, report, document>>

\* handleEditAccount: the form is saved, its balance field included, whether
\* the user typed a new balance or left the one the form was filled with
SessionSaveForm(s) ==
  /\ sessions[s].pc = "editing"
  /\ ~RowLocked(sessions[s].account)
  /\ \E bal \in EditBalances \cup {sessions[s].form.balance} :
       /\ accounts' = [accounts EXCEPT
                         ![sessions[s].account] =
                            [type |-> sessions[s].form.type, balance |-> bal,
                             limit_amount |-> sessions[s].form.limit_amount]]
       /\ sessions' = [sessions EXCEPT
                         ![s].pc = "done",
                         ![s].delta = bal - sessions[s].form.balance]
  /\ UNCHANGED <<transactions, lastOp, nOps, credit_bills, today, lastRun, report, document>>

ConcNext ==
  \E s \in SessionIds :
    \/ SessionInsert(s)
    \/ SessionApplyTrigger(s)
    \/ SessionCommit(s)
    \/ SessionOpenForm(s)
    \/ SessionSaveForm(s)

ConcSpec == ConcInit /\ [][ConcNext]_vars

\* the balances the sessions started from
OpeningBalance(a) == lastOp.pre.accounts[a].balance

\* both sessions finished an operation that writes the balance of account a
BothWrote(a) ==
  \A s \in SessionIds : sessions[s].pc = "done" /\ sessions[s].account = a

\* C11: whatever the interleaving of two concurrent operations that write
\* the balance of one account, the final balance holds the changes of both:
\* the opening balance plus the amount each insert added and the change each
\* account edit asked for.
C11_NoLostUpdate ==
  sessions # <<>> =>
    \A a \in AccountIds :
      BothWrote(a) =>
        accounts[a].balance =
          OpeningBalance(a) + sessions["s1"].delta + sessions["s2"].delta

(* ===================== billing cycle scheduler ========================= *)
(* manage_credit_bills, the credit_bills table it maintains and the         *)
(* calendar arithmetic of PostgreSQL it relies on.  A DATE is written as    *)
(* the number yyyymmdd, which orders as the dates do.                       *)

\* number of scheduler steps in a behaviour
MaxRuns == 4

Date(y, m, d) == y * 10000 + m * 100 + d
YearOf(dt) == dt \div 10000
MonthOf(dt) == (dt \div 100) % 100
DayOf(dt) == dt % 100

IsLeap(y) == (y % 4 = 0 /\ y % 100 # 0) \/ y % 400 = 0

DaysInMonth(y, m) ==
  IF m = 2 THEN (IF IsLeap(y) THEN 29 ELSE 28)
  ELSE IF m \in {4, 6, 9, 11} THEN 30 ELSE 31

\* date_trunc('month', dt)
date_trunc_month(dt) == Date(YearOf(dt), MonthOf(dt), 1)

\* dt + (n || ' days')::interval, n of either sign
RECURSIVE AddDays(_, _)
AddDays(dt, n) ==
  LET y == YearOf(dt)
      m == MonthOf(dt)
      d == DayOf(dt)
  IN  IF n = 0 THEN dt
      ELSE IF n > 0
        THEN IF d < DaysInMonth(y, m) THEN AddDays(Date(y, m, d + 1), n - 1)
             ELSE IF m < 12 THEN AddDays(Date(y, m + 1, 1), n - 1)
             ELSE AddDays(Date(y + 1, 1, 1), n - 1)
        ELSE IF d > 1 THEN AddDays(Date(y, m, d - 1), n + 1)
             ELSE IF m > 1 THEN AddDays(Date(y, m - 1, DaysInMonth(y, m - 1)), n + 1)
             ELSE AddDays(Date(y - 1, 12, 31), n + 1)

\* dt + (n || ' month')::interval for n = 1 or -1: the day of the month is
\* kept, or cut to the last day of the month reached
AddMonths(dt, n) ==
  LET y0 == YearOf(dt)
      m0 == MonthOf(dt) + n
      y == IF m0 > 12 THEN y0 + 1 ELSE IF m0 < 1 THEN y0 - 1 ELSE y0
      m == IF m0 > 12 THEN m0 - 12 ELSE IF m0 < 1 THEN m0 + 12 ELSE m0
      len == DaysInMonth(y, m)
  IN  Date(y, m, IF DayOf(dt) > len THEN len ELSE DayOf(dt))

\* a row of credit_bills, reduced to the columns the scheduler writes and
\* the amounts
Bill(a, st, start, closing, due) ==
  [account_id |-> a, status |-> st, start_date |-> start, closing_date |-> closing,
   due_date |-> due, total_amount |-> 0, paid_amount |-> 0]

\* faulty variant: the closing date never rolls to the next month
v_closing_date_NoRoll(v_today, closing_day) ==
  AddDays(date_trunc_month(v_today), closing_day - 1)

\* v_closing_date
v_closing_date(v_today, closing_day) ==
  LET c == AddDays(date_trunc_month(v_today), closing_day - 1)
  IN  IF v_today > c THEN AddMonths(c, 1) ELSE c

\* v_start_date
v_start_date(closing) == AddDays(AddMonths(closing, -1), 1)

\* faulty variant: the due date never rolls to the next month
v_due_date_NoRoll(closing, closing_day, due_day) ==
  AddDays(date_trunc_month(closing), due_day - 1)

\* v_due_date
v_due_date(closing, closing_day, due_day) ==
  LET d == AddDays(date_trunc_month(closing), due_day - 1)
  IN  IF due_day <= closing_day THEN AddMonths(d, 1) ELSE d

\* faulty variant: the close step without its status condition
CloseStep_AnyStatus(bills, a, v_today) ==
  { IF b.account_id = a /\ b.closing_date <= v_today
      THEN [b EXCEPT !.status = "closed"]
      ELSE b : b \in bills }

\* faulty variant: the close step without its account_id condition
CloseStep_AnyAccount(bills, a, v_today) ==
  { IF b.status = "open" /\ b.closing_date <= v_today
      THEN [b EXCEPT !.status = "closed"]
      ELSE b : b \in bills }

\* step 1: UPDATE credit_bills SET status = 'closed' WHERE account_id = a
\*         AND status = 'open' AND closing_date <= v_today
CloseStep(bills, a, v_today) ==
  { IF b.account_id = a /\ b.status = "open" /\ b.closing_date <= v_today
      THEN [b EXCEPT !.status = "closed"]
      ELSE b : b \in bills }

\* step 2: INSERT INTO credit_bills ... ON CONFLICT (account_id, closing_date)
\*         DO NOTHING
OpenStep(bills, a, v_today, closing_day, due_day) ==
  LET closing == v_closing_date(v_today, closing_day)
      new == Bill(a, "open", v_start_date(closing), closing,
                  v_due_date(closing, closing_day, due_day))
  IN  IF \E b \in bills : b.account_id = a /\ b.closing_date = closing
        THEN bills
        ELSE bills \cup {new}

\* the body of the loop for one credit account
ProcessAccount(bills, acc, a, v_today) ==
  OpenStep(CloseStep(bills, a, v_today), a, v_today,
           acc[a].closing_date, acc[a].due_date)

\* SQL NULL in the integer columns closing_date and due_date of accounts
NoDay == -999

\* the accounts the loop's SELECT returns
CreditAccounts(acc) ==
  { a \in DOMAIN acc :
      acc[a].type = "credit" /\ acc[a].closing_date # NoDay /\ acc[a].due_date # NoDay }

\* the orders in which the SELECT, which has no ORDER BY, can return them
Orders(S) ==
  { o \in [1..Cardinality(S) -> S] : \A i, j \in DOMAIN o : o[i] = o[j] => i = j }

\* the loop over the accounts in the order given
RECURSIVE RunPass(_, _, _, _)
RunPass(bills, acc, order, v_today) ==
  IF order = <<>> THEN bills
  ELSE RunPass(ProcessAccount(bills, acc, Head(order), v_today), acc, Tail(order), v_today)

\* the function call is one transaction: when it stops inside the loop,
\* what the accounts before wrote is rolled back
AbortedPass(bills, acc, prefix, v_today) ==
  LET written == RunPass(bills, acc, prefix, v_today)
  IN  bills

\* the billing days of a credit account: the forms accept 1..31 or nothing,
\* the columns any integer
BillingConfigs == {<<5, 15>>, <<31, 5>>, <<0, 15>>, <<5, 32>>, <<NoDay, 15>>}

StartDays == {Date(2025, 1, 5), Date(2025, 1, 10), Date(2025, 1, 31)}

\* days between two looks at the scheduler
DaySteps == {1, 26, 62}

BillingAccount(ty, cfg) ==
  [type |-> ty, balance |-> 0, limit_amount |-> 1,
   closing_date |-> cfg[1], due_date |-> cfg[2]]

Run(kind, pre, order) == [kind |-> kind, pre |-> pre, order |-> order]

BillsInit ==
  /\ \E cb \in BillingConfigs, ck \in BillingConfigs :
       accounts = [a \in AccountIds |->
                     IF a = "A" THEN BillingAccount("checking", <<NoDay, NoDay>>)
                     ELSE IF a = "B" THEN BillingAccount("credit", cb)
                     ELSE BillingAccount("credit", ck)]
  /\ transactions = <<>>
  /\ lastOp = Op("init", TRUE, 0, NoRow, NoRow, NULL, NULL, 0, Db(accounts, <<>>))
  /\ nOps = 0
  /\ credit_bills = {}
  /\ today \in StartDays
  /\ lastRun = Run("none", {}, <<>>)
  /\ NoSessions /\ NoReport /\ NoDocument

\* the scheduler calls manage_credit_bills and the call commits
ManageCreditBills ==
  /\ nOps < MaxRuns
  /\ \E order \in Orders(CreditAccounts(accounts)) :
       /\ credit_bills' = RunPass(credit_bills, accounts, order, today)
       /\ lastRun' = Run("run", credit_bills, order)
  /\ nOps' = nOps + 1
  /\ UNCHANGED <<accounts, transactions, lastOp, sessions, today, report, document>>

\* the call stops inside the loop, after the accounts of prefix
ManageCreditBillsAborted ==
  /\ nOps < MaxRuns
  /\ \E order \in Orders(CreditAccounts(accounts)), n \in 0..2 :
       /\ n < Len(order)
       /\ credit_bills' = AbortedPass(credit_bills, accounts, SubSeq(order, 1, n), today)
       /\ lastRun' = Run("aborted", credit_bills, SubSeq(order, 1, n))
  /\ nOps' = nOps + 1
  /\ UNCHANGED <<accounts, transactions, lastOp, sessions, today, report, document>>

\* days pass
DaysPass ==
  /\ nOps < MaxRuns
  /\ \E n \in DaySteps : today' = AddDays(today, n)
  /\ lastRun' = Run("days", credit_bills, <<>>)
  /\ nOps' = nOps + 1
  /\ UNCHANGED <<accounts, transactions, lastOp, sessions, credit_bills, report, document>>

\* a closed cycle is paid (status 'paid'), outside the scheduler
PayBill ==
  /\ nOps < MaxRuns
  /\ \E b \in credit_bills :
       /\ b.status = "closed"
       /\ credit_bills' = (credit_bills \ {b}) \cup {[b EXCEPT !.status = "paid"]}
  /\ lastRun' = Run("paid", credit_bills, <<>>)
  /\ nOps' = nOps + 1
  /\ UNCHANGED <<accounts, transactions, lastOp, sessions, today, report, document>>

BillsNext ==
  \/ ManageCreditBills
  \/ ManageCreditBillsAborted
  \/ DaysPass
  \/ PayBill

BillsSpec == BillsInit /\ [][BillsNext]_vars

(* ------------------------ scheduler properties ------------------------- *)
\* the last step was a committed pass of the scheduler
AfterRun == lastRun.kind = "run"

ValidDay(d) == d \in 1..31

\* the credit accounts of the pass whose billing days the forms accept
WellConfigured ==
  { a \in CreditAccounts(accounts) :
      ValidDay(accounts[a].closing_date) /\ ValidDay(accounts[a].due_date) }

\* the credit accounts of the pass with a billing day of 0 or above 31
Malformed == CreditAccounts(accounts) \ WellConfigured

BillsOf(bills, a) == { b \in bills : b.account_id = a }

OpenBillsOf(bills, a) == { b \in BillsOf(bills, a) : b.status = "open" }

\* C12: a second pass on the same date, right after a pass, leaves the
\* cycles of every well-configured account as the first pass left them.
C12_SecondRunChangesNothing ==
  AfterRun =>
    \A order \in Orders(CreditAccounts(accounts)), a \in WellConfigured :
      BillsOf(RunPass(credit_bills, accounts, order, today), a) = BillsOf(credit_bills, a)

\* C13: after a pass every well-configured credit account has exactly one
\* cycle in status open.
C13_ExactlyOneOpenCycle ==
  AfterRun =>
    \A a \in WellConfigured : Cardinality(OpenBillsOf(credit_bills, a)) = 1

\* C14: after a pass on date today no cycle of a processed, well-configured
\* account is open with closing_date <= today.
C14_NoOpenCyclePastClosing ==
  AfterRun =>
    \A a \in WellConfigured :
      \A b \in OpenBillsOf(credit_bills, a) : b.closing_date > today

\* the dates the description of the open step gives
FollowingMonth(y, m, d) == IF m = 12 THEN Date(y + 1, 1, d) ELSE Date(y, m + 1, d)

PrecedingMonth(y, m, d) == IF m = 1 THEN Date(y - 1, 12, d) ELSE Date(y, m - 1, d)

StatedClosing(t, D_close) ==
  LET c == Date(YearOf(t), MonthOf(t), D_close)
  IN  IF c >= t THEN c ELSE FollowingMonth(YearOf(t), MonthOf(t), D_close)

StatedStart(closing, D_close) ==
  AddDays(PrecedingMonth(YearOf(closing), MonthOf(closing), D_close), 1)

StatedDue(closing, D_close, D_due) ==
  IF D_due <= D_close
    THEN FollowingMonth(YearOf(closing), MonthOf(closing), D_due)
    ELSE Date(YearOf(closing), MonthOf(closing), D_due)

\* C15: after a pass, a well-configured account has the cycle the open step
\* targets: closing on day D_close of today's month, or of the following
\* month when that day is before today, starting one day after day D_close
\* of the month before, and due on day D_due of the closing month, or of the
\* following month when D_due <= D_close.
C15_TargetedCycleDates ==
  AfterRun =>
    \A a \in WellConfigured :
      LET cd == accounts[a].closing_date
          dd == accounts[a].due_date
          closing == StatedClosing(today, cd)
      IN  \E b \in BillsOf(credit_bills, a) :
            /\ b.closing_date = closing
            /\ b.start_date = StatedStart(closing, cd)
            /\ b.due_date = StatedDue(closing, cd, dd)

\* the case of C16: a pass on day 10 of a month over an account with
\* close-day 5 and due-day 15 that had no open cycle
Day10Case(a) ==
  /\ AfterRun
  /\ DayOf(today) = 10
  /\ a \in CreditAccounts(accounts)
  /\ accounts[a].closing_date = 5
  /\ accounts[a].due_date = 15
  /\ OpenBillsOf(lastRun.pre, a) = {}

\* C16 as stated: the pass creates a cycle from day 6 of the previous month
\* to day 5 of the current month.
C16_CycleOfCurrentMonth ==
  \A a \in AccountIds :
    Day10Case(a) =>
      \E b \in BillsOf(credit_bills, a) \ lastRun.pre :
        /\ b.start_date = PrecedingMonth(YearOf(today), MonthOf(today), 6)
        /\ b.closing_date = Date(YearOf(today), MonthOf(today), 5)

\* C16 amended: the pass creates one open cycle, from day 6 of the current
\* month to day 5 of the following month, due on day 15 of the following
\* month.
C16_CycleOfFollowingMonth ==
  \A a \in AccountIds :
    Day10Case(a) =>
      BillsOf(credit_bills, a) \ lastRun.pre =
        { Bill(a, "open",
               Date(YearOf(today), MonthOf(today), 6),
               FollowingMonth(YearOf(today), MonthOf(today), 5),
               FollowingMonth(YearOf(today), MonthOf(today), 15)) }

C16_Witness ==
  \E a \in AccountIds : Day10Case(a) /\ BillsOf(credit_bills, a) # {}

\* the cycle of bills with the key (account_id, closing_date) of b
SameKey(bills, b) ==
  { c \in bills : c.account_id = b.account_id /\ c.closing_date = b.closing_date }

\* C17: a pass keeps every existing cycle, changing at most its status from
\* open to closed: a closed or paid cycle is untouched, no status goes back to
\* open, and a cycle on the pair the open step targets keeps its dates and
\* amounts, and its status unless the close step of the same pass closed it.
C17_OnlyOpenToClosed ==
  AfterRun =>
    \A b \in lastRun.pre :
      /\ Cardinality(SameKey(credit_bills, b)) = 1
      /\ \A c \in SameKey(credit_bills, b) :
           \/ c = b
           \/ /\ b.status = "open"
              /\ b.closing_date <= today
              /\ c = [b EXCEPT !.status = "closed"]

C17_Witness ==
  /\ AfterRun
  /\ \E b \in lastRun.pre : b.status \in {"closed", "paid"}
  /\ \E b \in lastRun.pre : b.status = "open" /\ b \notin credit_bills
  /\ \E a \in WellConfigured, b \in lastRun.pre :
       /\ b.account_id = a
       /\ b.closing_date = v_closing_date(today, accounts[a].closing_date)

\* the prefixes of an order after which a pass can stop
Prefixes(order) == { SubSeq(order, 1, n) : n \in 0..Len(order) }

C19_MalformedAccountSkipped ==
  AfterRun =>
    \A a \in Malformed : BillsOf(credit_bills, a) \subseteq BillsOf(lastRun.pre, a)

(* ======================== reporting aggregator ========================= *)
(* get_analytics_report in its is_paid revision.  The column date of        *)
(* transactions is text 'YYYY-MM-DD'; it is written as the number yyyymmdd, *)
(* which orders as the text does.                                           *)
UserIds == {"u1", "u2"}
ReportDates == {Date(2025, 1, 10), Date(2025, 2, 20)}
CategoryIds == {"food"}

\* a row of transactions, reduced to the columns the report reads
ReportRow(u, dt, amt, paid, ty, incl, cat) ==
  [user_id |-> u, date |-> dt, amount |-> amt, is_paid |-> paid, type |-> ty,
   include_in_reports |-> incl, category_id |-> cat]

\* the entries clients write: an income of 1000, an expense of 500 (the edit
\* form stores it negative, addTransaction passes the amount as it is given)
\* and a transfer leg
ReportRows ==
  { ReportRow(u, dt, k[2], paid, k[1], incl, cat) :
      u \in UserIds, dt \in ReportDates,
      k \in {<<"income", 1000>>, <<"expense", -500>>, <<"expense", 500>>,
             <<"transfer", -500>>},
      paid \in BOOLEAN, incl \in BOOLEAN, cat \in CategoryIds }

\* what a statement gives when PostgreSQL rejects it
SqlError == [ok |-> FALSE]

\* CREATE TEMP TABLE temp_cash_flow_txs AS SELECT ... WHERE ...: the ids of
\* the rows selected
temp_cash_flow_txs(txs, p_user_id, p_start_date, p_end_date) ==
  { i \in DOMAIN txs :
      /\ txs[i].user_id = p_user_id
      /\ txs[i].date >= p_start_date
      /\ txs[i].date <= p_end_date
      /\ txs[i].is_paid = TRUE
      /\ txs[i].type \in {"income", "expense"}
      /\ txs[i].include_in_reports = TRUE }

\* SUM(ABS(amount)) over the rows S
RECURSIVE SumAbsAmounts(_, _)
SumAbsAmounts(txs, S) ==
  IF S = {} THEN 0
  ELSE LET i == CHOOSE j \in S : TRUE
       IN  ABS(txs[i].amount) + SumAbsAmounts(txs, S \ {i})

OfType(txs, S, ty) == { i \in S : txs[i].type = ty }

\* 1. totals by type
v_totals_by_type(txs, temp) ==
  [income |-> SumAmounts(txs, OfType(txs, temp, "income")),
   expenses |-> SumAbsAmounts(txs, OfType(txs, temp, "expense"))]

\* CTE category_totals: the expenses of each category
category_totals(txs, temp) ==
  [c \in { txs[i].category_id : i \in OfType(txs, temp, "expense") } \ {NULL} |->
     LET S == { i \in OfType(txs, temp, "expense") : txs[i].category_id = c }
     IN  [amount |-> ABS(SumAmounts(txs, S)), transactions |-> Cardinality(S)]]

\* SUM(amount) over the rows of category_totals with the categories in S
RECURSIVE SumCategoryAmounts(_, _)
SumCategoryAmounts(ct, S) ==
  IF S = {} THEN 0
  ELSE LET c == CHOOSE x \in S : TRUE
       IN  ct[c].amount + SumCategoryAmounts(ct, S \ {c})

\* CTE total_expenses: COALESCE(SUM(amount), 1) over category_totals; the
\* sum is NULL only when category_totals has no row
total_expenses(ct) ==
  IF DOMAIN ct = {} THEN 1 ELSE SumCategoryAmounts(ct, DOMAIN ct)

\* 2. category data: the statement's select list names total_expenses.total
\* while its FROM clause lists that CTE under the alias te, so the name
\* total_expenses is not visible there and PostgreSQL rejects the statement
\* when the function first runs it
v_category_data(txs, temp) == SqlError

MonthKey(dt) == dt \div 100

\* ORDER BY month_start ASC LIMIT 12
Limit12(months) == { m \in months : Cardinality({ k \in months : k < m }) < 12 }

\* CTE monthly_totals: income and expenses of each month
monthly_totals(txs, temp) ==
  [m \in { MonthKey(txs[i].date) : i \in temp } |->
     LET S == { i \in temp : MonthKey(txs[i].date) = m }
         income == SumAmounts(txs, OfType(txs, S, "income"))
         expenses == ABS(SumAmounts(txs, OfType(txs, S, "expense")))
     IN  [month_key |-> m, income |-> income, expenses |-> expenses,
          balance |-> income - expenses]]

\* the numbers of S in ascending order
RECURSIVE SortAsc(_)
SortAsc(S) ==
  IF S = {} THEN <<>>
  ELSE LET m == CHOOSE x \in S : \A y \in S : x <= y
       IN  <<m>> \o SortAsc(S \ {m})

\* CTE ordered_months: the rows of monthly_totals, ORDER BY month_start ASC
\* LIMIT 12
ordered_months(txs, temp) ==
  LET mt == monthly_totals(txs, temp)
      keys == SortAsc(Limit12(DOMAIN mt))
  IN  [i \in DOMAIN keys |-> mt[keys[i]]]

\* 3. monthly data: json_agg over ordered_months, in the order it delivers
v_monthly_data(txs, temp) == ordered_months(txs, temp)

\* the function: a statement that is rejected aborts the call
get_analytics_report(txs, p_user_id, p_start_date, p_end_date) ==
  LET temp == temp_cash_flow_txs(txs, p_user_id, p_start_date, p_end_date)
      categories == v_category_data(txs, temp)
  IN  IF categories = SqlError THEN SqlError
      ELSE [ok |-> TRUE, totals |-> v_totals_by_type(txs, temp),
            categories |-> categories, monthly |-> v_monthly_data(txs, temp)]

\* a call of the function: its arguments and what it returned
Call(u, s, e, result) ==
  [p_user_id |-> u, p_start_date |-> s, p_end_date |-> e, result |-> result]

ReportInit ==
  /\ accounts = OpenedAccounts(0)
  /\ transactions = <<>>
  /\ lastOp = Op("init", TRUE, 0, NoRow, NoRow, NULL, NULL, 0, Db(accounts, <<>>))
  /\ nOps = 0
  /\ report = Call(NULL, 0, 0, [ok |-> TRUE])
  /\ NoSessions /\ NoBilling /\ NoDocument

\* a client writes an entry
InsertEntry ==
  /\ FreeIds # {}
  /\ \E r \in ReportRows : transactions' = (NextId(FreeIds) :> r) @@ transactions
  /\ UNCHANGED <<accounts, lastOp, nOps, sessions, credit_bills, today, lastRun, report, document>>

\* rpc get_analytics_report
GetAnalyticsReport ==
  /\ \E u \in UserIds, s \in ReportDates, e \in ReportDates :
       report' = Call(u, s, e, get_analytics_report(transactions, u, s, e))
  /\ UNCHANGED <<accounts, transactions, lastOp, nOps, sessions, credit_bills, today,
                 lastRun, document>>

ReportNext ==
  \/ InsertEntry
  \/ GetAnalyticsReport

ReportSpec == ReportInit /\ [][ReportNext]_vars

\* the entries the report is meant to be computed from
Reportable(u, s, e) ==
  { i \in DOMAIN transactions :
      /\ transactions[i].user_id = u
      /\ s <= transactions[i].date /\ transactions[i].date <= e
      /\ transactions[i].is_paid
      /\ transactions[i].include_in_reports
      /\ transactions[i].type \in {"income", "expense"} }

\* the report was called on the table as it stands
Reported == report.p_user_id # NULL

\* C20: a call returns a report whose totals come from the user's settled,
\* reportable income and expense entries dated within the range: with one
\* settled income of 1000 and one unsettled expense of 500 in the range the
\* totals are income 1000 and expenses 0.
C20_ReportOnlyFromFilteredEntries ==
  (Reported /\ report.result = get_analytics_report(transactions, report.p_user_id,
                                                    report.p_start_date, report.p_end_date)) =>
    LET S == Reportable(report.p_user_id, report.p_start_date, report.p_end_date)
    IN  /\ report.result.ok
        /\ report.result.totals.income = SumAmounts(transactions, OfType(transactions, S, "income"))
        /\ report.result.totals.expenses =
             SumAbsAmounts(transactions, OfType(transactions, S, "expense"))

(* ------------------------- long report ranges -------------------------- *)
\* the months of a range longer than a year
SeriesMonths ==
  { Date(2024, m, 15) : m \in 1..12 } \cup { Date(2025, m, 15) : m \in 1..2 }

SeriesStarts == {Date(2024, 1, 1), Date(2024, 3, 1)}
SeriesEnd == Date(2025, 2, 28)

\* a ledger with one settled income of user u1 on each of the dates of S
RECURSIVE SeriesLedger(_)
SeriesLedger(S) ==
  IF S = {} THEN <<>>
  ELSE LET d == CHOOSE x \in S : \A y \in S : x >= y
       IN  Append(SeriesLedger(S \ {d}),
                  ReportRow("u1", d, 1000, TRUE, "income", TRUE, "food"))

SeriesInit ==
  /\ accounts = OpenedAccounts(0)
  /\ \E S \in SUBSET SeriesMonths : transactions = SeriesLedger(S)
  /\ lastOp = Op("init", TRUE, 0, NoRow, NoRow, NULL, NULL, 0, Db(accounts, <<>>))
  /\ nOps = 0
  /\ report = Call(NULL, 0, 0, [ok |-> TRUE])
  /\ NoSessions /\ NoBilling /\ NoDocument

\* rpc get_analytics_report over a range of more than a year
GetLongRangeReport ==
  /\ \E s \in SeriesStarts :
       report' = Call("u1", s, SeriesEnd,
                      get_analytics_report(transactions, "u1", s, SeriesEnd))
  /\ UNCHANGED <<accounts, transactions, lastOp, nOps, sessions, credit_bills, today,
                 lastRun, document>>

SeriesSpec == SeriesInit /\ [][GetLongRangeReport]_vars

\* the rows the last call selected
SelectedRows ==
  temp_cash_flow_txs(transactions, report.p_user_id, report.p_start_date,
                     report.p_end_date)

SelectedMonths == { MonthKey(transactions[i].date) : i \in SelectedRows }

MostRecent12(months) == { m \in months : Cardinality({ k \in months : k > m }) < 12 }

\* C21: the monthly series of a call is in ascending order of month and,
\* when the range holds entries in more than 12 months, is made of the 12
\* most recent of them.
C21_MostRecentTwelveMonths ==
  Reported =>
    LET series == v_monthly_data(transactions, SelectedRows)
    IN  /\ \A i, j \in DOMAIN series :
             i < j => series[i].month_key < series[j].month_key
        /\ Cardinality(SelectedMonths) > 12 =>
             { series[i].month_key : i \in DOMAIN series } = MostRecent12(SelectedMonths)

\* C22: when the per-category expense amounts of a call total zero, the
\* percentages are taken against a total of at least 1 or there is no
\* category to take a percentage of.
C22_NoDivisionByZero ==
  Reported =>
    LET ct == category_totals(transactions, SelectedRows)
    IN  SumCategoryAmounts(ct, DOMAIN ct) = 0 =>
          (total_expenses(ct) >= 1 \/ DOMAIN ct = {})

\* the sum of field f over the rows of a monthly series
RECURSIVE SumSeries(_, _)
SumSeries(series, f) ==
  IF series = <<>> THEN 0
  ELSE Head(series)[f] + SumSeries(Tail(series), f)

\* C30: when the range of a call holds entries in at most 12 months, the
\* monthly incomes add up to totals.income, the monthly expenses add up to
\* totals.expenses, and each month's balance is its income minus its expenses.
C30_MonthlyAgreesWithTotals ==
  (Reported /\ Cardinality(SelectedMonths) <= 12) =>
    LET totals == v_totals_by_type(transactions, SelectedRows)
        series == v_monthly_data(transactions, SelectedRows)
    IN  /\ SumSeries(series, "income") = totals.income
        /\ SumSeries(series, "expenses") = totals.expenses
        /\ \A i \in DOMAIN series :
             series[i].balance = series[i].income - series[i].expenses

(* ------------------------ reconciliation, checks ------------------------ *)
\* C23: a call of reconcile_transaction leaves every account's balance as it
\* was, whatever the row's type, settled flag, account and counter-account.
C23_ReconcileChangesNoBalance ==
  lastOp.kind = "reconcile" => Balances(accounts) = Balances(lastOp.pre.accounts)

C23_Witness ==
  /\ Committed("reconcile")
  /\ lastOp.old.is_paid
  /\ IsCounterTransfer(lastOp.old)
  /\ lastOp.old.amount = 2

\* C27: an update that changes none of the financial columns of a settled
\* expense, as reconcile_transaction makes, is not rejected for insufficient
\* funds.
C27_ReconcileOfSettledExpenseAccepted ==
  (lastOp.kind = "reconcile" /\ lastOp.old.type = "expense" /\ lastOp.old.is_paid)
    => lastOp.ok

(* ----------------------- rejected writes, checks ------------------------ *)
\* C24: a transfer procedure called with an amount of zero or less fails,
\* creates no ledger entry and changes no account balance.
C24_NonPositiveTransferRejected ==
  (lastOp.kind \in TransferKinds /\ lastOp.amount <= 0)
    => (~lastOp.ok /\ CurrentDb = lastOp.pre)

\* the last operation wrote (insert or update) an expense or transfer row on
\* an account that is not of type credit; a transfer row with an amount of
\* zero or less is left out, its rejection being for its sign
WroteDebitOnNonCredit ==
  /\ lastOp.kind \in {"insert", "update"}
  /\ lastOp.new.type \in {"expense", "transfer"}
  /\ ~(lastOp.new.type = "transfer" /\ lastOp.new.amount <= 0)
  /\ lastOp.pre.accounts[lastOp.new.account_id].type # "credit"

\* C25: an expense or transfer inserted or updated on a non-credit account is
\* rejected exactly when its absolute amount exceeds the account's balance
\* plus its limit, and a rejected write changes neither table.
C25_RejectedExactlyPastBalancePlusLimit ==
  WroteDebitOnNonCredit =>
    LET a == lastOp.pre.accounts[lastOp.new.account_id]
    IN  /\ ~lastOp.ok <=> ABS(lastOp.new.amount) > a.balance + a.limit_amount
        /\ ~lastOp.ok => CurrentDb = lastOp.pre

\* C28: an expense inserted on an account of type credit is accepted whenever
\* its absolute amount is at most the account's balance plus limit_amount.
C28_ExpenseOnCreditAccountAccepted ==
  (/\ lastOp.kind = "insert"
   /\ lastOp.new.type = "expense"
   /\ lastOp.pre.accounts[lastOp.new.account_id].type = "credit"
   /\ ABS(lastOp.new.amount)
        <= lastOp.pre.accounts[lastOp.new.account_id].balance
           + lastOp.pre.accounts[lastOp.new.account_id].limit_amount)
    => lastOp.ok

(* ===================== billing days 1..31, any date ==================== *)
(* The scheduler with one credit account whose close-day and due-day range  *)
(* over 1..31, run at the start, the middle and the end of months of 28,    *)
(* 29, 30 and 31 days and around the end of a year.                         *)

BillingDays == 1..31

CycleMonths ==
  {<<2024, 1>>, <<2024, 2>>, <<2024, 4>>, <<2024, 11>>, <<2024, 12>>, <<2025, 2>>,
   <<2025, 3>>}

\* the values of current_date on which the scheduler runs
CycleRunDays ==
  UNION { { Date(ym[1], ym[2], d) :
              d \in { e \in {1, 15, 28, 29, 30, 31} : e <= DaysInMonth(ym[1], ym[2]) } } :
          ym \in CycleMonths }

CycleInit ==
  /\ \E cd \in BillingDays, dd \in BillingDays :
       accounts = [a \in AccountIds |->
                     IF a = "B" THEN BillingAccount("credit", <<cd, dd>>)
                     ELSE BillingAccount("checking", <<NoDay, NoDay>>)]
  /\ transactions = <<>>
  /\ lastOp = Op("init", TRUE, 0, NoRow, NoRow, NULL, NULL, 0, Db(accounts, <<>>))
  /\ nOps = 0
  /\ credit_bills = {}
  /\ today \in CycleRunDays
  /\ lastRun = Run("none", {}, <<>>)
  /\ NoSessions /\ NoReport /\ NoDocument

CycleSpec == CycleInit /\ [][ManageCreditBills]_vars

\* the cycles the last pass inserted: those on a pair (account_id,
\* closing_date) that had no cycle before the pass
InsertedBills == { b \in credit_bills : SameKey(lastRun.pre, b) = {} }

\* C29: every cycle a pass inserts has start_date <= closing_date < due_date
\* and a closing_date that is not before the run date.
C29_InsertedCycleDatesOrdered ==
  AfterRun =>
    \A b \in InsertedBills :
      /\ b.start_date <= b.closing_date
      /\ b.closing_date < b.due_date
      /\ b.closing_date >= today

\* a cycle inserted with a closing date that is not on the close-day, for an
\* account whose due-day is not after its close-day
C29_Witness ==
  /\ AfterRun
  /\ \E b \in InsertedBills :
       /\ DayOf(b.closing_date) # accounts[b.account_id].closing_date
       /\ accounts[b.account_id].due_date <= accounts[b.account_id].closing_date
       /\ YearOf(b.due_date) > YearOf(today)

(* ======================== fiscal documents ============================== *)
(* validateFiscalDocument of lib/taxReports.ts.  A string is the sequence   *)
(* of its characters.                                                       *)

DigitChars == <<"0", "1", "2", "3", "4", "5", "6", "7", "8", "9">>

IsDigit(c) == \E d \in 1..10 : DigitChars[d] = c

\* parseInt of a digit character
parseInt(c) == (CHOOSE d \in 1..10 : DigitChars[d] = c) - 1

\* number.replace(/\D/g, '')
sanitize(number) == SelectSeq(number, IsDigit)

\* /^\d{1}(\1{10})$/.test(sanitized): inside its own group \1 is not yet
\* set and matches the empty string, so the pattern matches one digit alone
RepeatedDigitTest(sanitized) == Len(sanitized) = 1 /\ IsDigit(sanitized[1])

\* the loop of validateCPF: sum of sanitized[i] * (first - i) for i < n,
\* i counted from 0
RECURSIVE WeightedSum(_, _, _)
WeightedSum(sanitized, n, first) ==
  IF n = 0 THEN 0
  ELSE WeightedSum(sanitized, n - 1, first)
         + parseInt(sanitized[n]) * (first - (n - 1))

\* faulty variant: the check digit 10 not replaced by 0
checkDigit_NoWrap(sum) == (sum * 10) % 11

\* checkDigit = (sum * 10) % 11; if (checkDigit === 10) checkDigit = 0
checkDigit(sum) ==
  LET c == (sum * 10) % 11
  IN  IF c = 10 THEN 0 ELSE c

validateCPF(cpf) ==
  LET sanitized == sanitize(cpf)
  IN  IF Len(sanitized) # 11 \/ RepeatedDigitTest(sanitized) THEN FALSE
      ELSE IF checkDigit(WeightedSum(sanitized, 9, 10)) # parseInt(sanitized[10])
        THEN FALSE
      ELSE checkDigit(WeightedSum(sanitized, 10, 11)) = parseInt(sanitized[11])

\* validateDigits(length) of validateCNPJ: the weight starts at length - 7,
\* goes down by one per digit and restarts at 9 after 2
RECURSIVE CnpjSum(_, _, _, _)
CnpjSum(sanitized, i, length, pos) ==
  IF i = length THEN 0
  ELSE parseInt(sanitized[i + 1]) * pos
         + CnpjSum(sanitized, i + 1, length, IF pos - 1 < 2 THEN 9 ELSE pos - 1)

validateDigits(sanitized, length) ==
  LET sum == CnpjSum(sanitized, 0, length, length - 7)
      digit == IF sum % 11 < 2 THEN 0 ELSE 11 - (sum % 11)
  IN  digit = parseInt(sanitized[length + 1])

validateCNPJ(cnpj) ==
  LET sanitized == sanitize(cnpj)
  IN  IF Len(sanitized) # 14 THEN FALSE
      ELSE validateDigits(sanitized, 12) /\ validateDigits(sanitized, 13)

validateBrazilianDocument(type, number) ==
  IF type = "CPF" THEN validateCPF(number)
  ELSE IF type = "CNPJ" THEN validateCNPJ(number)
  ELSE FALSE

\* /^(?!000|666|9\d{2})\d{3}-(?!00)\d{2}-(?!0000)\d{4}$/
validateUSDocument(type, number) ==
  IF type = "SSN"
  THEN /\ Len(number) = 11
       /\ \A i \in 1..11 :
            IF i \in {4, 7} THEN number[i] = "-" ELSE IsDigit(number[i])
       /\ SubSeq(number, 1, 3) \notin {<<"0", "0", "0">>, <<"6", "6", "6">>}
       /\ number[1] # "9"
       /\ SubSeq(number, 5, 6) # <<"0", "0">>
       /\ SubSeq(number, 8, 11) # <<"0", "0", "0", "0">>
  ELSE FALSE

\* /^\d{11}$/
validateGermanDocument(type, number) ==
  IF type = "Steuer-ID"
  THEN Len(number) = 11 /\ \A i \in 1..11 : IsDigit(number[i])
  ELSE FALSE

\* the outcome of a call: the value returned, or the error thrown
Returned(v) == [threw |-> FALSE, value |-> v]
Thrown == [threw |-> TRUE, value |-> FALSE]

validateFiscalDocument(type, number, country) ==
  CASE country = "BR" -> Returned(validateBrazilianDocument(type, number))
    [] country = "US" -> Returned(validateUSDocument(type, number))
    [] country = "DE" -> Returned(validateGermanDocument(type, number))
    [] OTHER -> Thrown

(* ------------------------------ inputs --------------------------------- *)
Char(d) == DigitChars[d + 1]

\* the first eight digits of the numbers tried
CpfStems ==
  { <<"1", "2", "3", "4", "5", "6", "7", "8">>,
    <<"1", "1", "1", "4", "4", "4", "7", "7">>,
    <<"1", "1", "1", "1", "1", "1", "1", "1">> }

\* eleven digits: a stem, any ninth digit and any two last digits
ElevenDigits ==
  { stem \o <<Char(d9), Char(d10), Char(d11)>> :
      stem \in CpfStems, d9 \in 0..9, d10 \in 0..9, d11 \in 0..9 }

\* ddd.ddd.ddd-dd
Dotted(n) ==
  SubSeq(n, 1, 3) \o <<".">> \o SubSeq(n, 4, 6) \o <<".">> \o SubSeq(n, 7, 9)
    \o <<"-">> \o SubSeq(n, 10, 11)

DocumentNumbers ==
  ElevenDigits
    \cup { Dotted(n) : n \in ElevenDigits }
    \cup { SubSeq(n, 1, 10) : n \in ElevenDigits }
    \cup { n \o <<"0">> : n \in { m \in ElevenDigits : m[11] = "0" } }
    \cup { <<"1", "2", ".", "3", "4", "5", ".", "6", "7", "8", "/", "0", "0", "0",
             "1", "-", "9", "5">>,
           <<"1", "2", "3", "-", "4", "5", "-", "6", "7", "8", "9">>,
           <<>> }

\* the calls tried: type and country
DocumentKinds ==
  { <<"CPF", "BR">>, <<"CNPJ", "BR">>, <<"RG", "BR">>, <<"SSN", "US">>,
    <<"Steuer-ID", "DE">>, <<"CPF", "FR">> }

Doc(type, number, country, called, result) ==
  [type |-> type, number |-> number, country |-> country, called |-> called,
   result |-> result]

DocInit ==
  /\ \E k \in DocumentKinds, n \in DocumentNumbers :
       document = Doc(k[1], n, k[2], FALSE, Thrown)
  /\ accounts = OpenedAccounts(0)
  /\ transactions = <<>>
  /\ lastOp = Op("init", TRUE, 0, NoRow, NoRow, NULL, NULL, 0, Db(accounts, <<>>))
  /\ nOps = 0
  /\ NoSessions /\ NoBilling /\ NoReport

\* the form's document is validated
ValidateFiscalDocument ==
  /\ ~document.called
  /\ document' = [document EXCEPT
       !.called = TRUE,
       !.result = validateFiscalDocument(document.type, document.number,
                                         document.country)]
  /\ UNCHANGED <<accounts, transactions, lastOp, nOps, sessions, credit_bills, today,
                 lastRun, report>>

DocSpec == DocInit /\ [][ValidateFiscalDocument]_vars

(* ------------------------------ checks ---------------------------------- *)
\* the digits of n, as numbers
DigitsOf(n) == [i \in 1..Len(sanitize(n)) |-> parseInt(sanitize(n)[i])]

RECURSIVE Dot(_, _, _)
\* d[1] * w + d[2] * (w - 1) + ... over the first k digits
Dot(d, k, w) == IF k = 0 THEN 0 ELSE Dot(d, k - 1, w) + d[k] * (w - k + 1)

\* the mod-11 check digit of a weighted sum: 0 when the sum leaves 0 or 1,
\* else 11 minus what it leaves
Mod11Digit(sum) == IF sum % 11 < 2 THEN 0 ELSE 11 - (sum % 11)

HasCpfCheckDigits(n) ==
  LET d == DigitsOf(n)
  IN  /\ Len(d) = 11
      /\ d[10] = Mod11Digit(Dot(d, 9, 10))
      /\ d[11] = Mod11Digit(Dot(d, 10, 11))

CpfCall == document.called /\ document.type = "CPF" /\ document.country = "BR"

\* C26: validateFiscalDocument('CPF', n, 'BR') returns true exactly when n,
\* its non-digit characters removed, has 11 digits of which the 10th and
\* 11th are the mod-11 check digits of the digits before them (weights
\* 10..2 and 11..2); with a wrong check digit it returns false.
C26_CpfValidExactlyOnCheckDigits ==
  CpfCall =>
    /\ ~document.result.threw
    /\ document.result.value <=> HasCpfCheckDigits(document.number)

\* 123.456.789-09, whose first check digit is the remainder 10 counted as 0
C26_Witness ==
  /\ CpfCall
  /\ document.result.value
  /\ document.number = <<"1", "2", "3", ".", "4", "5", "6", ".", "7", "8", "9", "-",
                         "0", "9">>

====
